---- MODULE Spec2Model ----
(***************************************************************************)
(* A model of parafun's Scaler backend session                             *)
(* (src/parafun/backend/scaler.py, class ScalerSession).                   *)
(*                                                                         *)
(* One session owns a BoundedSemaphore(n_workers) and a Scaler client.     *)
(* Each task t is one call of submit() by some caller thread, followed by  *)
(* the run of its on_done_callback on whatever thread completes the        *)
(* underlying Scaler future.  The steps of different tasks interleave      *)
(* freely.                                                                 *)
(*                                                                         *)
(* The engines (ScalerRemoteBackend, ScalerLocalBackend), their            *)
(* serialization, the local cluster's shutdown and the session's `with`    *)
(* block are modelled further down, under SpecEngine.                      *)
(***************************************************************************)
EXTENDS Integers, FiniteSets

(* ------------------------------ bounds -------------------------------- *)

\* Number of submit() calls made on the session.
MaxTasks == 2

\* Largest worker count a session is created with.
MaxWorkers == 2

\* Largest value (ns) a measured overhead takes.
MaxDur == 1

\* Resolution of the seconds value a handle reports: ticks per nanosecond.
TicksPerNano == 2

(* ----------------------------- constants ------------------------------ *)

\* ScalerSession.CONSTANT_SCHEDULING_OVERHEAD, in nanoseconds.
CONSTANT_SCHEDULING_OVERHEAD == 8000000

\* Python's None, for a variable that holds a number or a payload otherwise.
NoValue == -1

Tasks == 1..MaxTasks

\* The values profile() measures for a block (nanoseconds, non-negative).
Durations == {0, MaxDur}

\* The execution durations a handle reports, in ticks (a float of seconds in
\* the code): zero, a fraction of a nanosecond, and a little over MaxDur ns.
ReportedTicks == {0, TicksPerNano - 1, MaxDur * TicksPerNano + 1}

\* How a handle reports the execution duration: the task_duration attribute
\* (scaler < 1.5.0), the profiling_info() accessor (scaler >= 1.5.0), or
\* neither of the two.
Ifaces == {"task_duration", "profiling_info", "neither"}

\* The outcomes of an underlying handle.
Outcomes == {"ok", "err", "cancelled"}

\* The value task t's remote function returns, and the exception it raises.
HandleResult(t) == t
HandleException(t) == 100 + t

(* --------------------------- ProfiledFuture --------------------------- *)

\* ProfiledFuture(): a pending future with no result, exception or duration.
\* calls counts the set_result / set_exception / cancel calls it received.
NewFuture == [state |-> "pending", result |-> NoValue, exception |-> NoValue,
              duration |-> NoValue, calls |-> 0]

\* The future of a task whose submit() has not been called.
NoFuture == [state |-> "absent", result |-> NoValue, exception |-> NoValue,
             duration |-> NoValue, calls |-> 0]

\* Future.cancel(): a pending future becomes cancelled; a finished one stays.
FutureCancel(f) ==
    IF f.state = "pending"
    THEN [f EXCEPT !.state = "cancelled", !.calls = @ + 1]
    ELSE [f EXCEPT !.calls = @ + 1]

\* ProfiledFuture.set_result(result, duration): single assignment.
FutureSetResult(f, r, d) ==
    IF f.state = "pending"
    THEN [f EXCEPT !.state = "finished", !.result = r, !.duration = d,
                   !.calls = @ + 1]
    ELSE [f EXCEPT !.state = "invalid", !.calls = @ + 1]

\* ProfiledFuture.set_exception(exception, duration): single assignment.
FutureSetException(f, e, d) ==
    IF f.state = "pending"
    THEN [f EXCEPT !.state = "finished", !.exception = e, !.duration = d,
                   !.calls = @ + 1]
    ELSE [f EXCEPT !.state = "invalid", !.calls = @ + 1]

(* ------------------------------- state -------------------------------- *)

VARIABLES
    n_workers,          \* the worker count the session was created with
    blocking,           \* whether the gate's acquire() waits for a permit
    handle_iface,       \* the duration interface the client's handles expose
    permits,            \* _concurrent_task_guard._value: permits available
    pc,                 \* position of each submit() call
    handle,             \* state of each underlying Scaler future
    cb,                 \* position of each on_done_callback
    future,             \* the ProfiledFuture each submit() created
    submit_duration,    \* submit_duration.value of each call
    function_duration,  \* function_duration local of each callback
    release_duration,   \* release_duration.value of each callback
    releases,           \* number of release() calls each callback made
    engines,            \* the engine objects: one constructed, the others
                        \* restored from a serialized state
    shutdown,           \* the shutdown() calls made, and what they tore down
    access,             \* the last read of an engine's `cluster` property
    scope               \* the `with engine.session()` block of the run

evars == <<engines, shutdown, access, scope>>

vars == <<n_workers, blocking, handle_iface, permits, pc, handle, cb, future,
          submit_duration, function_duration, release_duration, releases,
          evars>>

config == <<n_workers, blocking, handle_iface>>

\* The exceptions an on_done_callback can end with.
CbErrors == {"AttributeError", "ValueError", "CancelledError"}

\* The callback of task t has returned or raised.
CbFinished(t) == cb[t] \in {"done"} \cup CbErrors

\* Task t has acquired a permit (submit() got past the gate).
PastGate(t) == pc[t] \in {"acquired", "forwarded", "returned", "raised"}

(* ------------------------- pieces of the code ------------------------- *)

\* Mutant of GateInit: the gate is sized one too large.
GateInit_Mut(k) == k + 1

\* BoundedSemaphore(n_workers): the initial (and bound) value of the gate.
GateInit(k) == k

\* Mutant of CanAcquire: an off-by-one in the gate's test.
CanAcquire_Mut(v) == v >= 0

\* Semaphore.acquire(): a permit can be taken when the value is positive.
CanAcquire(v) == v > 0

\* Mutant of AcquireWaits: acquire(blocking=False) instead of acquire().
AcquireWaits_Mut(b) == FALSE

\* acquire() is called with no arguments: it waits whenever the gate is one
\* that waits.
AcquireWaits(b) == b

\* Mutant of AfterAcquire: the failed acquisition is not checked.
AfterAcquire_Mut(acquired) == "acquired"

\* `if not acquired: return None`: where submit() goes after acquire().
AfterAcquire(acquired) == IF acquired THEN "acquired" ELSE "returned_none"

\* Mutant of HandleCancelled: the cancellation test is lost.
HandleCancelled_Mut(h) == FALSE

\* underlying_future.cancelled()
HandleCancelled(h) == h = "cancelled"

\* int(x): truncation toward zero of n / d.
Trunc(n, d) == IF n >= 0 THEN n \div d ELSE -((-n) \div d)

\* int(seconds * 1_000_000_000) for a report of `ticks` ticks.
FunctionDuration(ticks) == Trunc(ticks, TicksPerNano)

\* hasattr(underlying_future, "task_duration"), and else the call of
\* underlying_future.profiling_info(): whether the lookup succeeds.
DurationLookupSucceeds(iface) == iface \in {"task_duration", "profiling_info"}

\* BoundedSemaphore.release() raises ValueError at its initial value.
CanRelease(v, k) == v < GateInit(k)

\* Mutant of GateRelease: the permit is not given back.
GateRelease_Mut(v) == v

\* self._concurrent_task_guard.release(): the gate's value afterwards.
GateRelease(v) == v + 1

\* Mutant of TaskDuration: the constant overhead is left out.
TaskDuration_Mut(s, f, r) == s + f + r

\* The sum of line 76-78.
TaskDuration(s, f, r) == CONSTANT_SCHEDULING_OVERHEAD + s + f + r

\* Mutant of Resolve: the else is lost, both setters are called.
Resolve_Mut(f, exception, result, d) ==
    FutureSetException(FutureSetResult(f, result, d), exception, d)

\* Lines 80-83: set_result when there is no exception, else set_exception.
Resolve(f, exception, result, d) ==
    IF exception = NoValue
    THEN FutureSetResult(f, result, d)
    ELSE FutureSetException(f, exception, d)

\* Mutant of ExceptionOf: the handle's exception is dropped.
ExceptionOf_Mut(t, h) == NoValue

\* underlying_future.exception() of a finished handle.
ExceptionOf(t, h) == IF h = "err" THEN HandleException(t) ELSE NoValue

\* `result` of lines 58 and 72.
ResultOf(t, h) == IF h = "ok" THEN HandleResult(t) ELSE NoValue

(* -------------------------------- Init -------------------------------- *)

SessionInit ==
    /\ n_workers \in 1..MaxWorkers
    /\ blocking \in BOOLEAN
    /\ handle_iface \in Ifaces
    /\ permits = GateInit(n_workers)
    /\ pc = [t \in Tasks |-> "idle"]
    /\ handle = [t \in Tasks |-> "absent"]
    /\ cb = [t \in Tasks |-> "none"]
    /\ future = [t \in Tasks |-> NoFuture]
    /\ submit_duration = [t \in Tasks |-> NoValue]
    /\ function_duration = [t \in Tasks |-> NoValue]
    /\ release_duration = [t \in Tasks |-> NoValue]
    /\ releases = [t \in Tasks |-> 0]

(* ------------------------------ submit() ------------------------------ *)

\* Lines 38-39: submit() is called; the profile block opens and the
\* ProfiledFuture is created.
Call(t) ==
    /\ pc[t] = "idle"
    /\ pc' = [pc EXCEPT ![t] = "acquiring"]
    /\ future' = [future EXCEPT ![t] = NewFuture]
    /\ UNCHANGED <<evars, config, permits, handle, cb, submit_duration,
                   function_duration, release_duration, releases>>

\* Lines 41-43: acquire() on the gate.  A blocking gate makes the caller wait
\* until a permit can be taken; a non-blocking one answers False at once, and
\* submit() returns None.
Acquire(t) ==
    /\ pc[t] = "acquiring"
    /\ AcquireWaits(blocking) => CanAcquire(permits)
    /\ IF CanAcquire(permits)
       THEN /\ permits' = permits - 1
            /\ pc' = [pc EXCEPT ![t] = AfterAcquire(TRUE)]
       ELSE /\ permits' = permits
            /\ pc' = [pc EXCEPT ![t] = AfterAcquire(FALSE)]
    /\ UNCHANGED <<evars, config, handle, cb, future, submit_duration,
                   function_duration, release_duration, releases>>

\* Line 45 and the end of the profile block: the task goes to the client,
\* which hands back a pending handle; submit_duration.value is set.
Forward(t) ==
    /\ pc[t] = "acquired"
    /\ \E d \in Durations :
          submit_duration' = [submit_duration EXCEPT ![t] = d]
    /\ handle' = [handle EXCEPT ![t] = "pending"]
    /\ pc' = [pc EXCEPT ![t] = "forwarded"]
    /\ UNCHANGED <<evars, config, permits, cb, future, function_duration,
                   release_duration, releases>>

\* Line 45, when client.submit raises: the exception leaves the profile
\* block and submit(); nothing between the acquire() of line 41 and here
\* gives the permit back, and no handle or callback exists.
ForwardRaise(t) ==
    /\ pc[t] = "acquired"
    /\ pc' = [pc EXCEPT ![t] = "raised"]
    /\ UNCHANGED <<evars, config, permits, handle, cb, future, submit_duration,
                   function_duration, release_duration, releases>>

\* Lines 85-87: add_done_callback and `return future`.  On a handle that is
\* already done add_done_callback runs the callback in the calling thread
\* and swallows what it raises; its steps are the Cb actions below.
Register(t) ==
    /\ pc[t] = "forwarded"
    /\ pc' = [pc EXCEPT ![t] = "returned"]
    /\ UNCHANGED <<evars, config, permits, handle, cb, future, submit_duration,
                   function_duration, release_duration, releases>>

(* ------------------------- the external client ------------------------ *)

\* The underlying handle of task t completes: with a result, with the
\* exception of the remote function, or cancelled.
HandleComplete(t) ==
    /\ handle[t] = "pending"
    /\ \E o \in Outcomes : handle' = [handle EXCEPT ![t] = o]
    /\ UNCHANGED <<evars, config, permits, pc, cb, future, submit_duration,
                   function_duration, release_duration, releases>>

(* -------------------------- on_done_callback -------------------------- *)

\* Lines 48-52: the callback starts on a done handle; a cancelled handle
\* cancels the future and the callback returns.
CbBegin(t) ==
    /\ pc[t] = "returned"
    /\ handle[t] \in Outcomes
    /\ cb[t] = "none"
    /\ IF HandleCancelled(handle[t])
       THEN /\ future' = [future EXCEPT ![t] = FutureCancel(@)]
            /\ cb' = [cb EXCEPT ![t] = "done"]
       ELSE /\ future' = future
            /\ cb' = [cb EXCEPT ![t] = "begun"]
    /\ UNCHANGED <<evars, config, permits, pc, handle, submit_duration,
                   function_duration, release_duration, releases>>

\* The callback of task t raises e: it ends, and its locals are gone.
CbRaise(t, e) ==
    /\ cb' = [cb EXCEPT ![t] = e]
    /\ function_duration' = [function_duration EXCEPT ![t] = NoValue]
    /\ release_duration' = [release_duration EXCEPT ![t] = NoValue]

\* Lines 54-74: the release block.  exception() raises CancelledError on a
\* cancelled handle; on a result the execution duration is looked up, which
\* raises AttributeError when the handle has neither interface; then the
\* permit goes back to the gate, and release_duration.value is set.
CbRelease(t) ==
    /\ cb[t] = "begun"
    /\ IF handle[t] = "cancelled"
       THEN /\ CbRaise(t, "CancelledError")
            /\ UNCHANGED <<permits, releases>>
       ELSE IF handle[t] = "ok" /\ ~DurationLookupSucceeds(handle_iface)
       THEN /\ CbRaise(t, "AttributeError")
            /\ UNCHANGED <<permits, releases>>
       ELSE IF ~CanRelease(permits, n_workers)
       THEN /\ CbRaise(t, "ValueError")
            /\ releases' = [releases EXCEPT ![t] = @ + 1]
            /\ UNCHANGED permits
       ELSE /\ \E ticks \in ReportedTicks :
                 function_duration' =
                    [function_duration EXCEPT
                       ![t] = IF ExceptionOf(t, handle[t]) = NoValue
                              THEN FunctionDuration(ticks) ELSE 0]
            /\ permits' = GateRelease(permits)
            /\ releases' = [releases EXCEPT ![t] = @ + 1]
            /\ \E d \in Durations :
                 release_duration' = [release_duration EXCEPT ![t] = d]
            /\ cb' = [cb EXCEPT ![t] = "released"]
    /\ UNCHANGED <<evars, config, pc, handle, future, submit_duration>>

\* Lines 76-83: the total duration is computed and the future is resolved.
CbResolve(t) ==
    /\ cb[t] = "released"
    /\ future' = [future EXCEPT ![t] =
                    Resolve(@, ExceptionOf(t, handle[t]),
                            ResultOf(t, handle[t]),
                            TaskDuration(submit_duration[t],
                                         function_duration[t],
                                         release_duration[t]))]
    /\ cb' = [cb EXCEPT ![t] = "done"]
    /\ UNCHANGED <<evars, config, permits, pc, handle, submit_duration,
                   function_duration, release_duration, releases>>

(* ------------------------------ engines ------------------------------- *)
(* ScalerRemoteBackend and ScalerLocalBackend.  Engine 0 is constructed;   *)
(* every other engine is restored (__setstate__) from the serialized state *)
(* (__getstate__) of an engine that exists, as pickle does when an engine  *)
(* is sent to another process.                                             *)

\* Number of engines restored from a serialized state in a run.
MaxCopies == 2

\* Number of shutdown() calls made in a run.
MaxShutdowns == 2

\* psutil.cpu_count(logical=False) - 1, the default worker count, on a host
\* with two physical cores.
DefaultWorkers == 1

Copies == 0..MaxCopies

\* The keyword options a caller passes to an engine: one that the Client
\* constructor accepts, one that SchedulerClusterCombo accepts, and one
\* that neither accepts.
OptionNames == {"client_opt", "cluster_opt", "other_opt"}

\* __get_constructor_arg_names(Client) and (SchedulerClusterCombo), among
\* OptionNames.
ClientArgNames == {"client_opt"}
ClusterArgNames == {"cluster_opt"}

\* **kwargs with the names S.
Kwargs(S) == [k \in S |-> "on"]

\* A scheduler address, tcp://host:port.
Address(h, p) == [host |-> h, port |-> p]

\* scheduler_address=None
NoAddress == Address("", 0)

\* The addresses a caller passes.
GivenAddresses == {Address("10.0.0.5", 2345)}

\* The ports get_available_tcp_port() hands out.
FreePorts == {1024, 65535}

\* {**a, **b}: the keys of both, b's value where both have the key.
Merge(a, b) ==
    [k \in (DOMAIN a) \cup (DOMAIN b) |-> IF k \in DOMAIN b THEN b[k] ELSE a[k]]

\* The named parameters of ScalerRemoteBackend.__init__.
InitParams == {"scheduler_address", "n_workers", "allows_nested_tasks"}

\* ScalerRemoteBackend.__init__(**state): the named parameters are bound,
\* with their defaults when absent, and the rest is client_kwargs.
RemoteInit(state) ==
    [address |-> state["scheduler_address"],
     n_workers |-> IF "n_workers" \in DOMAIN state
                   THEN state["n_workers"] ELSE DefaultWorkers,
     nested |-> IF "allows_nested_tasks" \in DOMAIN state
                THEN state["allows_nested_tasks"] ELSE TRUE,
     client_kwargs |-> [k \in (DOMAIN state) \ InitParams |-> state[k]]]

\* An engine object of class `kind` with the fields f, the value c of
\* _cluster, and the number g of restorations behind it.
Engine(kind, f, c, g) ==
    [kind |-> kind, address |-> f.address, n_workers |-> f.n_workers,
     nested |-> f.nested, client_kwargs |-> f.client_kwargs,
     cluster |-> c, generation |-> g]

\* An engine that does not exist (yet).
NoEngine ==
    [kind |-> "unborn", address |-> NoAddress, n_workers |-> 0,
     nested |-> FALSE, client_kwargs |-> Kwargs({}), cluster |-> "none",
     generation |-> 0]

\* ScalerRemoteBackend(scheduler_address, n_workers, allows_nested_tasks,
\* **client_kwargs)
RemoteConstruct(a, n, nested, kw) ==
    Engine("remote",
           RemoteInit(Merge([scheduler_address |-> a, n_workers |-> n,
                             allows_nested_tasks |-> nested], kw)),
           "none", 0)

\* ScalerLocalBackend(per_worker_queue_size, scheduler_address, n_workers,
\* allows_nested_tasks, **kwargs): a loopback address on the free port p
\* when none is given; the cluster is started; the client gets the options
\* its constructor accepts.
LocalConstruct(a, p, n, nested, kw) ==
    Engine("local",
           RemoteInit(Merge([scheduler_address |->
                                IF a = NoAddress
                                THEN Address("127.0.0.1", p) ELSE a,
                             n_workers |-> n,
                             allows_nested_tasks |-> nested],
                            [k \in (DOMAIN kw) \cap ClientArgNames |-> kw[k]])),
           "handle", 0)

\* Mutant of GetState: allows_nested_tasks is left out of the state.
GetState_Mut(e) ==
    Merge([scheduler_address |-> e.address, n_workers |-> e.n_workers],
          e.client_kwargs)

\* ScalerRemoteBackend.__getstate__
GetState(e) ==
    Merge([scheduler_address |-> e.address, n_workers |-> e.n_workers,
           allows_nested_tasks |-> e.nested],
          e.client_kwargs)

\* Mutant of RestoredCluster: the restored manager keeps a cluster handle.
RestoredCluster_Mut == "handle"

\* ScalerLocalBackend.__setstate__: self._cluster = None
RestoredCluster == "none"

\* __setstate__(state) on a new object of e's class: __init__(**state) of
\* ScalerRemoteBackend, and for a local manager no cluster.
SetState(e, state) ==
    Engine(e.kind, RemoteInit(state),
           IF e.kind = "local" THEN RestoredCluster ELSE "none",
           e.generation + 1)

\* `self._cluster is not None` (and `is None`, negated)
ClusterPresent(c) == c # "none"

\* Mutant of ExitSuppresses: __exit__ returns a true value.
ExitSuppresses_Mut == TRUE

\* ScalerSession.__exit__ returns None: the exception of the block is not
\* suppressed.
ExitSuppresses == FALSE

\* The engines that exist.
Born == {i \in Copies : engines[i].kind # "unborn"}

\* No `with` block has been entered.
NoScope ==
    [state |-> "none", engine |-> 0, address |-> NoAddress, n_workers |-> 0,
     client_kwargs |-> Kwargs({}), disconnects |-> 0, raised |-> FALSE]

\* No engine exists: the engine part of a run that only uses a session.
NoEngines ==
    /\ engines = [i \in Copies |-> NoEngine]
    /\ shutdown = [calls |-> 0, teardowns |-> 0, last |-> 0, tore |-> FALSE]
    /\ access = [engine |-> 0, result |-> "none"]
    /\ scope = NoScope

\* No session is in use: the session part of a run that only uses engines.
NoSession ==
    /\ n_workers = 1
    /\ blocking = TRUE
    /\ handle_iface = "task_duration"
    /\ permits = GateInit(n_workers)
    /\ pc = [t \in Tasks |-> "idle"]
    /\ handle = [t \in Tasks |-> "absent"]
    /\ cb = [t \in Tasks |-> "none"]
    /\ future = [t \in Tasks |-> NoFuture]
    /\ submit_duration = [t \in Tasks |-> NoValue]
    /\ function_duration = [t \in Tasks |-> NoValue]
    /\ release_duration = [t \in Tasks |-> NoValue]
    /\ releases = [t \in Tasks |-> 0]

svars == <<n_workers, blocking, handle_iface, permits, pc, handle, cb, future,
           submit_duration, function_duration, release_duration, releases>>

\* Engine 0 after its construction, remote or local.
EngineInit ==
    /\ \E n \in 1..MaxWorkers, nested \in BOOLEAN, S \in SUBSET OptionNames :
          \/ \E a \in GivenAddresses :
                engines = [i \in Copies |->
                             IF i = 0
                             THEN RemoteConstruct(a, n, nested, Kwargs(S))
                             ELSE NoEngine]
          \/ \E a \in GivenAddresses \cup {NoAddress}, p \in FreePorts :
                engines = [i \in Copies |->
                             IF i = 0
                             THEN LocalConstruct(a, p, n, nested, Kwargs(S))
                             ELSE NoEngine]
    /\ shutdown = [calls |-> 0, teardowns |-> 0, last |-> 0, tore |-> FALSE]
    /\ access = [engine |-> 0, result |-> "none"]
    /\ scope = NoScope

\* pickle round trip of engine i: __getstate__ on it, __setstate__ on a new
\* object j of the same class.
RoundTrip(i, j) ==
    /\ i \in Born
    /\ j \notin Born
    /\ j - 1 \in Born
    /\ engines' = [engines EXCEPT ![j] = SetState(engines[i], GetState(engines[i]))]
    /\ UNCHANGED <<svars, shutdown, access, scope>>

\* engine.shutdown(): nothing on a remote engine; on a local manager
\* self._cluster.shutdown() when self._cluster is not None.
Shutdown(i) ==
    /\ i \in Born
    /\ shutdown.calls < MaxShutdowns
    /\ LET tears == engines[i].kind = "local"
                    /\ ClusterPresent(engines[i].cluster)
       IN shutdown' = [calls |-> shutdown.calls + 1,
                       teardowns |-> shutdown.teardowns + (IF tears THEN 1 ELSE 0),
                       last |-> i,
                       tore |-> tears]
    /\ UNCHANGED <<svars, engines, access, scope>>

\* A read of the `cluster` property of a local manager.
AccessCluster(i) ==
    /\ i \in Born
    /\ engines[i].kind = "local"
    /\ access' = [engine |-> i,
                  result |-> IF ~ClusterPresent(engines[i].cluster)
                             THEN "AttributeError" ELSE "handle"]
    /\ UNCHANGED <<svars, engines, shutdown, scope>>

\* `with engine.session() as s:` is entered on engine i: session() builds
\* the ScalerSession from the engine's fields, __enter__ returns it.
EnterScope(i) ==
    /\ i \in Born
    /\ scope.state = "none"
    /\ scope' = [state |-> "entered", engine |-> i,
                 address |-> engines[i].address,
                 n_workers |-> engines[i].n_workers,
                 client_kwargs |-> engines[i].client_kwargs,
                 disconnects |-> 0, raised |-> FALSE]
    /\ UNCHANGED <<svars, engines, shutdown, access>>

\* The body of the `with` block ends, normally or by raising.
BodyEnds ==
    /\ scope.state = "entered"
    /\ \E r \in BOOLEAN : scope' = [scope EXCEPT !.state = "leaving", !.raised = r]
    /\ UNCHANGED <<svars, engines, shutdown, access>>

\* __exit__: self.client.disconnect(); the block's exception, if any,
\* propagates unless __exit__ returned a true value.
ExitScope ==
    /\ scope.state = "leaving"
    /\ scope' = [scope EXCEPT
                   !.disconnects = @ + 1,
                   !.state = IF scope.raised /\ ~ExitSuppresses
                             THEN "propagated" ELSE "exited"]
    /\ UNCHANGED <<svars, engines, shutdown, access>>

(* ---------------------------- specification --------------------------- *)

Init == SessionInit /\ NoEngines

Next ==
    \E t \in Tasks :
       \/ Call(t)
       \/ Acquire(t)
       \/ Forward(t)
       \/ ForwardRaise(t)
       \/ Register(t)
       \/ HandleComplete(t)
       \/ CbBegin(t)
       \/ CbRelease(t)
       \/ CbResolve(t)

Spec == Init /\ [][Next]_vars

InitEngine == EngineInit /\ NoSession

NextEngine ==
    \/ \E i, j \in Copies : RoundTrip(i, j)
    \/ \E i \in Copies : Shutdown(i)
    \/ \E i \in Copies : AccessCluster(i)
    \/ \E i \in Copies : EnterScope(i)
    \/ BodyEnds
    \/ ExitScope

SpecEngine == InitEngine /\ [][NextEngine]_vars

(* ------------------------------- claims ------------------------------- *)

\* The tasks that hold a permit: past the gate, permit not yet given back.
Holders == {t \in Tasks : PastGate(t) /\ releases[t] = 0}

\* The tasks past the gate whose completion callback has not started.
Uncompleted == {t \in Tasks : PastGate(t) /\ cb[t] = "none"}

\* C1: with worker count k, the number of permits held (tasks past the gate
\* whose permit has not been released) is between 0 and k in every state.
C1_PermitsHeldBounded ==
    /\ Cardinality(Holders) >= 0
    /\ Cardinality(Holders) <= n_workers

\* C1 witness: every permit is held while another submit() is at the gate.
C1_Witness ==
    /\ Cardinality(Holders) = n_workers
    /\ \E t \in Tasks : pc[t] = "acquiring"

\* C2 (as claimed): once every submitted task's completion callback has
\* run to its end, whatever the outcomes were, the gate's available
\* capacity equals the worker count and each task released exactly once.
C2_AllPermitsReturned ==
    (\A t \in Tasks : PastGate(t) => pc[t] = "returned" /\ cb[t] = "done")
       => /\ permits = n_workers
          /\ \A t \in Tasks : PastGate(t) => releases[t] = 1

\* C3: on a blocking gate, while k tasks are past the gate and the
\* completion callback of none of them has run, a further submit() stays
\* at the gate: it does not get its permit and its task is not forwarded.
C3_BlockedUntilCompletion ==
    [][\A t \in Tasks :
          (/\ blocking
           /\ pc[t] = "acquiring"
           /\ Cardinality(Uncompleted) = n_workers)
             => /\ pc'[t] = "acquiring"
                /\ handle'[t] = "absent"]_vars

\* C3 witness: a blocking submit() waits at the gate behind k uncompleted
\* tasks.
C3_Witness ==
    /\ blocking
    /\ Cardinality(Uncompleted) = n_workers
    /\ \E t \in Tasks : pc[t] = "acquiring"

\* C4 (as claimed): a callback that has run on a handle that completed
\* with a result or with an exception has released the permit exactly
\* once; releases never exceed acquisitions and the gate is never
\* over-released.
C4_ReleasedOncePerCompletion ==
    /\ \A t \in Tasks :
          (handle[t] \in {"ok", "err"} /\ CbFinished(t)) => releases[t] = 1
    /\ \A t \in Tasks : releases[t] <= (IF PastGate(t) THEN 1 ELSE 0)
    /\ \A t \in Tasks : cb[t] # "ValueError"
    /\ permits <= n_workers

\* C5: a callback that runs on a cancelled handle leaves the future
\* cancelled, with no result, exception or duration, and raises nothing;
\* a cancelled future carries no result.
C5_CancellationPropagated ==
    /\ \A t \in Tasks :
          (handle[t] = "cancelled" /\ cb[t] # "none")
             => /\ cb[t] = "done"
                /\ future[t].state = "cancelled"
                /\ future[t].result = NoValue
                /\ future[t].exception = NoValue
                /\ future[t].duration = NoValue
    /\ \A t \in Tasks :
          future[t].state = "cancelled" => future[t].result = NoValue

\* C5 witness: the callback has run on a cancelled handle.
C5_Witness ==
    \E t \in Tasks : handle[t] = "cancelled" /\ cb[t] = "done"

\* The terminal states of a future.
Terminal(f) == f.state \in {"finished", "cancelled"}

\* C6: a future receives at most one of set_result, set_exception and
\* cancel; result and exception exclude each other; a future in a terminal
\* state never changes again.
C6_SingleAssignment ==
    /\ [](\A t \in Tasks :
             /\ future[t].calls <= 1
             /\ future[t].state # "invalid"
             /\ ~(future[t].result # NoValue /\ future[t].exception # NoValue)
             /\ Terminal(future[t]) <=> future[t].calls = 1)
    /\ [][\A t \in Tasks :
             Terminal(future[t]) => future'[t] = future[t]]_vars

\* C6 witness: two futures of one run ended differently, one resolved and
\* one cancelled.
C6_Witness ==
    \E t, u \in Tasks :
       /\ future[t].state = "finished"
       /\ future[u].state = "cancelled"

\* C7: a resolved future carries CONSTANT_SCHEDULING_OVERHEAD +
\* submit_overhead + execution_duration + release_overhead, the execution
\* duration being 0 on the exception path; with non-negative measurements
\* that is at least CONSTANT_SCHEDULING_OVERHEAD.
C7_DurationFormula ==
    \A t \in Tasks :
       future[t].state = "finished"
          => /\ submit_duration[t] >= 0
             /\ function_duration[t] >= 0
             /\ release_duration[t] >= 0
             /\ future[t].duration =
                   8000000 + submit_duration[t] + function_duration[t]
                           + release_duration[t]
             /\ (handle[t] = "err" => function_duration[t] = 0)
             /\ future[t].duration >= 8000000

\* C7 witness: a future resolved with a result whose execution took time,
\* and a future resolved with an exception.
C7_Witness ==
    \E t, u \in Tasks :
       /\ future[t].state = "finished" /\ handle[t] = "ok"
       /\ function_duration[t] > 0
       /\ future[u].state = "finished" /\ handle[u] = "err"

\* C8: when the remote function raises, submit() still returns the future,
\* and the callback resolves it with exactly the handle's exception,
\* releases the permit and does not raise.
C8_ExceptionCaptured ==
    \A t \in Tasks :
       handle[t] = "err"
          => /\ pc[t] \in {"forwarded", "returned"}
             /\ future[t].state \in {"pending", "finished"}
             /\ CbFinished(t)
                   => /\ cb[t] = "done"
                      /\ pc[t] = "returned"
                      /\ future[t].state = "finished"
                      /\ future[t].exception = HandleException(t)
                      /\ future[t].result = NoValue
                      /\ releases[t] = 1

\* C8 witness: the callback has run on a handle that failed.
C8_Witness ==
    \E t \in Tasks : handle[t] = "err" /\ cb[t] = "done" /\ pc[t] = "returned"

\* C9 (as claimed): on a handle that completed with a result, whichever
\* duration interface it exposes, and with a zero execution duration when
\* it exposes neither, the callback resolves the future with the result
\* and releases the permit.
C9_AnyDurationInterface ==
    \A t \in Tasks :
       (handle[t] = "ok" /\ CbFinished(t))
          => /\ cb[t] = "done"
             /\ future[t].state = "finished"
             /\ future[t].result = HandleResult(t)
             /\ releases[t] = 1
             /\ (handle_iface = "neither" => function_duration[t] = 0)

\* C10: when acquire() finds no permit and does not wait, submit() returns
\* None: the task is not forwarded, no callback is registered, and the
\* gate's capacity is what it was.
C10_NoPermitReturnsNone ==
    /\ [][\A t \in Tasks :
             (pc[t] = "acquiring" /\ permits = 0 /\ pc'[t] # pc[t])
                => /\ pc'[t] = "returned_none"
                   /\ permits' = permits
                   /\ handle'[t] = "absent"
                   /\ cb'[t] = "none"]_vars
    /\ [](\A t \in Tasks :
             pc[t] = "returned_none"
                => /\ handle[t] = "absent"
                   /\ cb[t] = "none"
                   /\ releases[t] = 0
                   /\ future[t].state = "pending")

\* C10 witness: a submit() returned None while every permit was held.
C10_Witness ==
    \E t \in Tasks :
       /\ pc[t] = "returned_none"
       /\ permits = 0
       /\ Cardinality(Holders) = n_workers

\* Task t holds a permit of the gate, read off the positions of its
\* submit() and of its callback: past acquire(), and not past the release()
\* of line 74.
PermitHeldAt(t) ==
    /\ PastGate(t)
    /\ ~(cb[t] = "released" \/ (cb[t] = "done" /\ handle[t] \in {"ok", "err"}))

\* C15: within a task the permit is acquired before the task is forwarded,
\* the callback observes the outcome after that, the permit is released
\* after the observation, and the future is resolved after the release: a
\* future seen resolved has its permit back in the gate.
C15_EventOrder ==
    /\ permits = n_workers - Cardinality({t \in Tasks : PermitHeldAt(t)})
    /\ \A t \in Tasks :
          /\ handle[t] # "absent" => pc[t] \in {"forwarded", "returned"}
          /\ cb[t] # "none" => handle[t] \in Outcomes
          /\ releases[t] > 0 =>
                /\ cb[t] \in {"released", "done"}
                /\ handle[t] \in {"ok", "err"}
          /\ future[t].state = "finished" =>
                /\ releases[t] = 1
                /\ ~PermitHeldAt(t)

\* C15 witness: a future is resolved while another task still holds a
\* permit.
C15_Witness ==
    \E t, u \in Tasks :
       /\ future[t].state = "finished"
       /\ releases[t] = 1
       /\ PermitHeldAt(u)

\* C16 (as claimed): a submit() waiting at a blocking gate is never left
\* with nothing to wait for: when every other submitted task has completed
\* and its callback has run, a permit is available to it.
C16_NoSubmitStuck ==
    \A t \in Tasks :
       (/\ blocking
        /\ pc[t] = "acquiring"
        /\ \A u \in Tasks \ {t} :
              \/ pc[u] \in {"idle", "acquiring"}
              \/ pc[u] = "returned" /\ CbFinished(u))
          => permits > 0

\* C17 (as claimed): once the callback has run, the future has left the
\* pending state: resolved with the handle's result, resolved with the
\* handle's exception, or cancelled, as the handle ended.
C17_CompletionResolvesFuture ==
    \A t \in Tasks :
       CbFinished(t)
          => /\ handle[t] = "ok" =>
                   /\ future[t].state = "finished"
                   /\ future[t].result = HandleResult(t)
             /\ handle[t] = "err" =>
                   /\ future[t].state = "finished"
                   /\ future[t].exception = HandleException(t)
             /\ handle[t] = "cancelled" => future[t].state = "cancelled"

\* C18 (as claimed): a submit() that client.submit made raise holds no
\* permit: the gate's capacity is the worker count less the permits of the
\* tasks that are in flight.
C18_FailedSubmitHoldsNoPermit ==
    permits = n_workers
              - Cardinality({t \in Tasks : PermitHeldAt(t) /\ pc[t] # "raised"})

\* C19: with a gate that waits, submit() never returns None; a submit()
\* that returns has taken a permit, forwarded its task, and returns the
\* future.
C19_BlockingNeverReturnsNone ==
    /\ [](blocking =>
            \A t \in Tasks :
               /\ pc[t] # "returned_none"
               /\ pc[t] = "returned" =>
                     /\ handle[t] # "absent"
                     /\ future[t].state # "absent")
    /\ [][blocking =>
            \A t \in Tasks :
               /\ (pc[t] = "acquiring" /\ pc'[t] # "acquiring") =>
                     /\ pc'[t] = "acquired"
                     /\ permits > 0
                     /\ permits' = permits - 1
               /\ (pc[t] # "forwarded" /\ pc'[t] = "forwarded") =>
                     /\ pc[t] = "acquired"
                     /\ handle'[t] = "pending"
               /\ (pc[t] # "returned" /\ pc'[t] = "returned") =>
                     pc[t] = "forwarded"]_vars

\* C19 witness: with a gate that waits, one submit() has returned its
\* future and another waits at the exhausted gate.
C19_Witness ==
    /\ blocking
    /\ permits = 0
    /\ \E t, u \in Tasks : pc[t] = "returned" /\ pc[u] = "acquiring"

\* The configuration an engine holds.
EngineConfig(e) ==
    [address |-> e.address, n_workers |-> e.n_workers, nested |-> e.nested,
     client_kwargs |-> e.client_kwargs]

\* C11: an engine restored from a serialized state, after any number of
\* round trips, is of the class of the constructed engine and has exactly
\* its scheduler address, worker count, allows_nested_tasks flag and extra
\* client options; the session it creates is built from those values.
C11_RoundTripPreservesConfig ==
    /\ \A j \in Born :
          /\ engines[j].kind = engines[0].kind
          /\ EngineConfig(engines[j]) = EngineConfig(engines[0])
    /\ scope.state # "none" =>
          /\ scope.address = engines[0].address
          /\ scope.n_workers = engines[0].n_workers
          /\ scope.client_kwargs = engines[0].client_kwargs

\* C11 witness: an engine two round trips away from the constructed one,
\* with nested tasks disallowed and a client option set, has created a
\* session.
C11_Witness ==
    \E j \in Born :
       /\ engines[j].generation = 2
       /\ ~engines[j].nested
       /\ DOMAIN engines[j].client_kwargs # {}
       /\ scope.state # "none"
       /\ scope.engine = j

\* C12: a local manager restored from a serialized state has no cluster
\* handle and starts no process group, and a read of its `cluster` property
\* fails with the AttributeError of line 177; on the constructed manager
\* the read returns the cluster handle.
C12_RestoredHasNoCluster ==
    /\ \A i \in Born :
          engines[i].kind = "local" =>
             /\ engines[i].generation > 0 => engines[i].cluster = "none"
             /\ engines[i].generation = 0 => engines[i].cluster = "handle"
    /\ access.result # "none" =>
          /\ engines[access.engine].generation > 0 =>
                access.result = "AttributeError"
          /\ engines[access.engine].generation = 0 =>
                access.result = "handle"

\* C12 witness: the `cluster` property of a restored local manager has been
\* read.
C12_Witness ==
    /\ access.result = "AttributeError"
    /\ engines[access.engine].kind = "local"
    /\ engines[access.engine].generation > 0

\* C13 (as claimed): over any sequence of shutdown() calls the owned
\* cluster is torn down at most once, and shutdown() on a restored manager
\* tears nothing down.
C13_TeardownAtMostOnce ==
    /\ shutdown.teardowns <= 1
    /\ (shutdown.calls > 0 /\ engines[shutdown.last].generation > 0)
          => ~shutdown.tore

\* C14: the client is disconnected exactly once on every way out of the
\* `with` block, and not before; an exception raised in the block is
\* propagated after the disconnect.
C14_DisconnectOnEveryExit ==
    /\ scope.state \in {"none", "entered", "leaving"} => scope.disconnects = 0
    /\ scope.state \in {"exited", "propagated"} => scope.disconnects = 1
    /\ scope.state = "exited" => ~scope.raised
    /\ scope.state = "propagated" => scope.raised

\* C14 witness: the block raised, the client was disconnected, and the
\* exception went on to the caller.
C14_Witness ==
    /\ scope.state = "propagated"
    /\ scope.disconnects = 1

====
